---- MODULE Spec2Model ----
(***************************************************************************)
(* Symbol-table construction and usage analysis of the zoker compiler      *)
(* (compiler/src/symbol_table.rs).                                         *)
(*                                                                         *)
(* The builder walks the program recursively.  The walk is modelled as the *)
(* sequence of nodes it visits: every action below is one arm of           *)
(* enter_statement / enter_expression, and the end of a construct is the   *)
(* exit_scope that closes it.  The program text is the input: which node   *)
(* comes next is chosen nondeterministically.  The analyzer's recursion    *)
(* (analyze_symbol_table) is modelled with an explicit stack of calls.     *)
(***************************************************************************)
EXTENDS Integers, Sequences, FiniteSets, TLC

\* Identifiers the input programs are written with.
Names == {"a", "b"}

\* ast::Type, the types a variable can be declared with.
Types == {"String", "Uint256", "Int256", "Bytes32", "Bool", "Bytes", "Address"}

\* ast::Specifier, and the absence of one (Option::None).
Specifiers == {"Storage", "Memory"}
NoSpecifier == "None"

\* The declarations the programs of Spec are written with: one type whose
\* default location is Memory, without a specifier.  SpecLocation draws
\* every type and every specifier, for one name.
SomeTypes == {"Uint256"}
SomeSpecifiers == {NoSpecifier}
OneName == {"a"}

\* The names the programs give their functions and contracts, and the
\* (vector, iterator) pairs of their for-each expressions.
FunctionNames == {"a"}
ContractNames == {"b"}
ForEachNames == {<<"a", "b">>}

\* Number of nodes a program has, and the depth of its scope nesting.
MaxStmts == 3
MaxDepth == 3

VARIABLES
    tables,         \* SymbolTableBuilder.tables: the open scopes, global first
    if_num,         \* SymbolTableBuilder.if_num
    for_num,        \* SymbolTableBuilder.for_num
    compound_num,   \* SymbolTableBuilder.compound_num
    frames,         \* the builder's recursion: per open scope, the construct
                    \* that opened it, the `location` its statements are
                    \* visited with and the number of its else_name
    stmt,           \* the node visited last (the input of the last step)
    nstmts,         \* number of nodes visited
    preceded,       \* history: every identifier reference so far had a
                    \* declaration of its name before it, in its own scope or
                    \* in an enclosing one
    pc,             \* "build", "analyze" or "done"
    table,          \* build: the table popped off the builder
    a_tables,       \* SymbolAnalyzer.tables
    calls,          \* the analyzer's recursion: the calls of
                    \* analyze_symbol_table in progress
    examined,       \* history: the symbols analyze_symbol was called with
    result          \* what make_symbol_tables returned

builder_vars == <<tables, if_num, for_num, compound_num>>
walk_vars == <<frames, stmt, nstmts, preceded>>
analyzer_vars == <<table, a_tables, calls, examined, result>>
vars == <<tables, if_num, for_num, compound_num, frames, stmt, nstmts,
          preceded, pc, table, a_tables, calls, examined, result>>

----------------------------------------------------------------------------
(* Sequences used as stacks (Vec::push, pop, last, last_mut).              *)

Last(s) == s[Len(s)]
Pop(s) == SubSeq(s, 1, Len(s) - 1)
SetLast(s, v) == [s EXCEPT ![Len(s)] = v]

(* IndexMap<String, Symbol>: a sequence of symbols with distinct names,    *)
(* in insertion order.  insert of a name already present replaces the      *)
(* value and keeps its position.                                           *)

Contains(map, name) == \E i \in 1..Len(map) : map[i].name = name

Get(map, name) == map[CHOOSE i \in 1..Len(map) : map[i].name = name]

Insert(map, symbol) ==
    IF Contains(map, symbol.name)
    THEN [i \in 1..Len(map) |->
             IF map[i].name = symbol.name THEN symbol ELSE map[i]]
    ELSE Append(map, symbol)

Symbol(name, role, symbol_type, data_location) ==
    [name |-> name, symbol_type |-> symbol_type,
     data_location |-> data_location, role |-> role]

AnalysisTable(map, typ) == [map |-> map, typ |-> typ]

----------------------------------------------------------------------------
(* SymbolTableBuilder.  `self` is the record of its four fields.           *)

Self ==
    [if_num |-> if_num, for_num |-> for_num,
     compound_num |-> compound_num, tables |-> tables]

SetSelf(self) ==
    /\ if_num' = self.if_num
    /\ for_num' = self.for_num
    /\ compound_num' = self.compound_num
    /\ tables' = self.tables

\* The counters of the new scope go on from those of the enclosing one.
enter_scope_counting_on(self, name, table_type) ==
    [if_num |-> Append(self.if_num, Last(self.if_num)),
     for_num |-> Append(self.for_num, Last(self.for_num)),
     compound_num |-> Append(self.compound_num, Last(self.compound_num)),
     tables |-> Append(self.tables,
                       [name |-> name, table_type |-> table_type,
                        symbols |-> <<>>, sub_tables |-> <<>>])]

enter_scope(self, name, table_type) ==
    [if_num |-> Append(self.if_num, 0),
     for_num |-> Append(self.for_num, 0),
     compound_num |-> Append(self.compound_num, 0),
     tables |-> Append(self.tables,
                       [name |-> name, table_type |-> table_type,
                        symbols |-> <<>>, sub_tables |-> <<>>])]

\* The popped table replaces the sub-tables of its parent.
exit_scope_replacing(self) ==
    LET popped == Last(self.tables)
        rest == Pop(self.tables)
        parent == Last(rest)
    IN  [if_num |-> Pop(self.if_num),
         for_num |-> Pop(self.for_num),
         compound_num |-> Pop(self.compound_num),
         tables |-> SetLast(rest,
                       [parent EXCEPT !.sub_tables = <<popped>>])]

\* exit_scope without self.if_num.pop().
exit_scope_keeping_if_num(self) ==
    LET popped == Last(self.tables)
        rest == Pop(self.tables)
        parent == Last(rest)
    IN  [if_num |-> self.if_num,
         for_num |-> Pop(self.for_num),
         compound_num |-> Pop(self.compound_num),
         tables |-> SetLast(rest,
                       [parent EXCEPT !.sub_tables = Append(@, popped)])]

exit_scope(self) ==
    LET popped == Last(self.tables)
        rest == Pop(self.tables)
        parent == Last(rest)
    IN  [if_num |-> Pop(self.if_num),
         for_num |-> Pop(self.for_num),
         compound_num |-> Pop(self.compound_num),
         tables |-> SetLast(rest,
                       [parent EXCEPT !.sub_tables = Append(@, popped)])]

\* tables.symbols.insert(name, symbol) on self.tables.last_mut()
insert_symbol(self, symbol) ==
    LET top == Last(self.tables)
    IN  [self EXCEPT !.tables =
            SetLast(@, [top EXCEPT !.symbols = Insert(@, symbol)])]

\* check_identifier without its test: the entry is inserted even when the
\* name is present.
check_identifier_always(self, name) ==
    insert_symbol(self, Symbol(name, "Used", "Unknown", "Unknown"))

\* check_identifier looking the name up in the enclosing scopes as well.
check_identifier_enclosing(self, name) ==
    IF \A i \in 1..Len(self.tables) : ~Contains(self.tables[i].symbols, name)
    THEN insert_symbol(self, Symbol(name, "Used", "Unknown", "Unknown"))
    ELSE self

check_identifier(self, name) ==
    IF ~Contains(Last(self.tables).symbols, name)
    THEN insert_symbol(self, Symbol(name, "Used", "Unknown", "Unknown"))
    ELSE self

default_location(typ) ==
    CASE typ = "Unknown"  -> "Unknown"
      [] typ = "Contract" -> "Storage"
      [] typ = "Function" -> "Storage"
      [] typ = "Uint256"  -> "Memory"
      [] typ = "Int256"   -> "Memory"
      [] typ = "String"   -> "Storage"
      [] typ = "Address"  -> "Memory"
      [] typ = "Bytes32"  -> "Storage"
      [] typ = "Bytes"    -> "Storage"
      [] typ = "Bool"     -> "Memory"

\* the match of register_identifier from ast::Type to SymbolType
symbol_type_of(typ) ==
    CASE typ = "String"  -> "String"
      [] typ = "Uint256" -> "Uint256"
      [] typ = "Int256"  -> "Int256"
      [] typ = "Bytes32" -> "Bytes32"
      [] typ = "Bool"    -> "Bool"
      [] typ = "Bytes"   -> "Bytes"
      [] typ = "Address" -> "Address"

\* The location is taken from the type whatever is passed down.
data_location_of_type(symbol_type, loc) == default_location(symbol_type)

data_location_of(symbol_type, loc) ==
    IF loc # "Unknown" THEN loc ELSE default_location(symbol_type)

register_identifier(self, name, typ, loc) ==
    LET symbol_type == symbol_type_of(typ)
    IN  insert_symbol(self,
            Symbol(name, "Declared", symbol_type,
                   data_location_of(symbol_type, loc)))

\* the location an InitializerStatement registers its variable with
initializer_location(specifier, location) ==
    IF specifier # NoSpecifier THEN specifier ELSE location

\* *number += 1 on the last counter of a stack
increment(nums) == SetLast(nums, Last(nums) + 1)

scope_name(prefix, number) == prefix \o ToString(number)

Frame(kind, location, number) ==
    [kind |-> kind, location |-> location, number |-> number]

\* Is there, among the open scopes, a Declared entry for name?
DeclaredBefore(ts, name) ==
    \E i \in 1..Len(ts) :
        /\ Contains(ts[i].symbols, name)
        /\ Get(ts[i].symbols, name).role = "Declared"

----------------------------------------------------------------------------
\* SymbolTableBuilder::new, then enter_program up to its first statement.
Init ==
    /\ tables = <<[name |-> "#Global", table_type |-> "Global",
                   symbols |-> <<>>, sub_tables |-> <<>>]>>
    /\ if_num = <<0>>
    /\ for_num = <<0>>
    /\ compound_num = <<0>>
    /\ frames = <<Frame("Program", "Memory", 0)>>
    /\ stmt = [node |-> "Program"]
    /\ nstmts = 0
    /\ preceded = TRUE
    /\ pc = "build"
    /\ table = [name |-> "", table_type |-> "", symbols |-> <<>>,
                sub_tables |-> <<>>]
    /\ a_tables = <<>>
    /\ calls = <<>>
    /\ examined = <<>>
    /\ result = [kind |-> "None"]

CanVisit == pc = "build" /\ nstmts < MaxStmts
CanOpen == CanVisit /\ Len(tables) < MaxDepth

\* ExpressionType::Identifier, wherever an expression is visited.
Identifier ==
    \E name \in Names :
        /\ CanVisit
        /\ SetSelf(check_identifier(Self, name))
        /\ stmt' = [node |-> "Identifier", name |-> name]
        /\ nstmts' = nstmts + 1
        /\ preceded' = (preceded /\ DeclaredBefore(tables, name))
        /\ UNCHANGED <<frames, pc, analyzer_vars>>

\* StatementType::InitializerStatement (a parameter is one as well).  The
\* identifiers of its default expression are the Identifier nodes after it.
Initializer(names, types, specifiers) ==
    \E name \in names, typ \in types, specifier \in specifiers :
        /\ CanVisit
        /\ SetSelf(register_identifier(Self, name, typ,
               initializer_location(specifier, Last(frames).location)))
        /\ stmt' = [node |-> "InitializerStatement", name |-> name,
                    variable_type |-> typ, data_location |-> specifier]
        /\ nstmts' = nstmts + 1
        /\ UNCHANGED <<frames, preceded, pc, analyzer_vars>>

\* FunctionStatement registering the name after enter_scope, in the scope
\* of the function.
FunctionStatementInside ==
    \E name \in FunctionNames :
        /\ CanOpen
        /\ SetSelf(insert_symbol(enter_scope(Self, name, "Function"),
                       Symbol(name, "Declared", "Function", "Storage")))
        /\ frames' = Append(frames, Frame("Function", "Unknown", 0))
        /\ stmt' = [node |-> "FunctionStatement", name |-> name]
        /\ nstmts' = nstmts + 1
        /\ UNCHANGED <<preceded, pc, analyzer_vars>>

\* StatementType::FunctionStatement, up to its parameters.
FunctionStatement ==
    \E name \in FunctionNames :
        /\ CanOpen
        /\ SetSelf(enter_scope(
               insert_symbol(Self,
                   Symbol(name, "Declared", "Function", "Storage")),
               name, "Function"))
        /\ frames' = Append(frames, Frame("Function", "Unknown", 0))
        /\ stmt' = [node |-> "FunctionStatement", name |-> name]
        /\ nstmts' = nstmts + 1
        /\ UNCHANGED <<preceded, pc, analyzer_vars>>

\* StatementType::ContractStatement, up to the first member; the members
\* are a MemberStatement, which visits them with Storage.
ContractStatement ==
    \E name \in ContractNames :
        /\ CanOpen
        /\ SetSelf(enter_scope(
               insert_symbol(Self,
                   Symbol(name, "Declared", "Contract", "Storage")),
               name, "Contract"))
        /\ frames' = Append(frames, Frame("Contract", "Storage", 0))
        /\ stmt' = [node |-> "ContractStatement", name |-> name]
        /\ nstmts' = nstmts + 1
        /\ UNCHANGED <<preceded, pc, analyzer_vars>>

\* StatementType::CompoundStatement, up to its first statement.
CompoundStatement ==
    LET counted == [Self EXCEPT !.compound_num = increment(@)]
        number == Last(counted.compound_num)
    IN  /\ CanOpen
        /\ SetSelf(enter_scope(counted, scope_name("#Compound_", number),
                               "Local"))
        /\ frames' = Append(frames,
                            Frame("Compound", Last(frames).location, number))
        /\ stmt' = [node |-> "CompoundStatement"]
        /\ nstmts' = nstmts + 1
        /\ UNCHANGED <<preceded, pc, analyzer_vars>>

\* ExpressionType::IfExpression, up to the first statement of the if
\* branch.  The identifiers of its condition are the Identifier nodes
\* before it.
IfExpression ==
    LET counted == [Self EXCEPT !.if_num = increment(@)]
        number == Last(counted.if_num)
    IN  /\ CanOpen
        /\ SetSelf(enter_scope(counted, scope_name("#If_", number), "Local"))
        /\ frames' = Append(frames, Frame("If", "Unknown", number))
        /\ stmt' = [node |-> "IfExpression"]
        /\ nstmts' = nstmts + 1
        /\ UNCHANGED <<preceded, pc, analyzer_vars>>

\* ExpressionType::ForEachExpression, up to the first statement of the body.
ForEachExpression ==
    \E names \in ForEachNames :
        LET vector == names[1]
            iterator == names[2]
            checked == check_identifier(Self, vector)
            counted == [checked EXCEPT !.for_num = increment(@)]
            number == Last(counted.for_num)
            entered == enter_scope(counted, scope_name("#For_", number),
                                   "Local")
        IN  /\ CanOpen
            /\ SetSelf(check_identifier(entered, iterator))
            /\ frames' = Append(frames, Frame("For", "Unknown", number))
            /\ stmt' = [node |-> "ForEachExpression", vector |-> vector,
                        iterator |-> iterator]
            /\ nstmts' = nstmts + 1
            /\ preceded' = (/\ preceded
                            /\ DeclaredBefore(tables, vector)
                            /\ DeclaredBefore(tables, iterator))
            /\ UNCHANGED <<pc, analyzer_vars>>

\* The else_statement of an if or for-each expression: the branch before it
\* is closed and the scope else_name is opened.  It is part of the node of
\* its expression, which nstmts has counted.
ElseStatement ==
    /\ pc = "build"
    /\ Last(frames).kind \in {"If", "For"}
    /\ SetSelf(enter_scope(exit_scope(Self),
                           scope_name("#Else_", Last(frames).number),
                           "Local"))
    /\ frames' = SetLast(frames, Frame("Else", "Unknown", 0))
    /\ stmt' = [node |-> "ElseStatement"]
    /\ UNCHANGED <<nstmts, preceded, pc, analyzer_vars>>

\* The end of a function, contract, compound statement or last branch.
ExitScope ==
    /\ pc = "build"
    /\ Len(frames) > 1
    /\ SetSelf(exit_scope(Self))
    /\ frames' = Pop(frames)
    /\ stmt' = [node |-> "End"]
    /\ UNCHANGED <<nstmts, preceded, pc, analyzer_vars>>

----------------------------------------------------------------------------
(* SymbolAnalyzer.  A call of analyze_symbol_table is the path of its      *)
(* table from the root (indices into sub_tables), the sub-table it visits  *)
(* next, and, once it has popped its snapshot, the snapshot and the        *)
(* symbol it analyzes next.                                                *)

RECURSIVE TableAt(_, _)
TableAt(t, path) ==
    IF path = <<>> THEN t
    ELSE TableAt(t.sub_tables[Head(path)], Tail(path))

Call(path) ==
    [path |-> path, next |-> 1, popped |-> FALSE,
     analysis_table |-> AnalysisTable(<<>>, "Global"), symbol |-> 1]

\* is_declared with all in place of any.
is_declared_all(stack, name) ==
    \A i \in 1..Len(stack) :
        /\ Contains(stack[i].map, name)
        /\ Get(stack[i].map, name).role # "Used"

\* is_declared without the test of the role.
is_declared_any_entry(stack, name) ==
    \E i \in 1..Len(stack) : Contains(stack[i].map, name)

\* is_declared of analyze_symbol
is_declared(stack, name) ==
    \E i \in 1..Len(stack) :
        /\ Contains(stack[i].map, name)
        /\ Get(stack[i].map, name).role # "Used"

\* The values of a map that does not keep the insertion order.
nth_value_reversed(map, i) == map[Len(map) + 1 - i]

\* analysis_table.map.values_mut(): the i-th value, in insertion order
nth_value(map, i) == map[i]

\* Err(..) when analyze_symbol fails on symbol with this stack, else Ok
analyze_symbol(stack, symbol) ==
    IF symbol.role = "Used" /\ ~is_declared(stack, symbol.name)
    THEN [kind |-> "Err",
          error |-> "Variable " \o symbol.name \o " is not declared, but used."]
    ELSE [kind |-> "Ok"]

\* self.tables.push(AnalysisTable::new(table.symbols.clone(), ..))
push_table(stack, t) == Append(stack, AnalysisTable(t.symbols, t.table_type))

\* The snapshot is read but left on the stack.
pop_table_keep(stack) == stack

\* self.tables.pop().unwrap(): the stack that is left
pop_table(stack) == Pop(stack)

\* build: the traversal is over, the global table is popped and the
\* analyzer is called with it.
Build ==
    /\ pc = "build"
    /\ Len(frames) = 1
    /\ table' = Last(tables)
    /\ tables' = Pop(tables)
    /\ a_tables' = push_table(<<>>, Last(tables))
    /\ calls' = <<Call(<<>>)>>
    /\ pc' = "analyze"
    /\ stmt' = [node |-> "End"]
    /\ UNCHANGED <<if_num, for_num, compound_num, frames, nstmts, preceded,
                   examined, result>>

\* for sub_table in sub_tables { self.analyze_symbol_table(sub_table)?; }
AnalyzeSubTable ==
    /\ pc = "analyze"
    /\ LET call == Last(calls)
           subs == TableAt(table, call.path).sub_tables
       IN  /\ ~call.popped
           /\ call.next <= Len(subs)
           /\ calls' = Append(SetLast(calls, [call EXCEPT !.next = @ + 1]),
                              Call(Append(call.path, call.next)))
           /\ a_tables' = push_table(a_tables, subs[call.next])
    /\ UNCHANGED <<builder_vars, walk_vars, pc, table, examined, result>>

\* let mut analysis_table = self.tables.pop().unwrap();
AnalyzePop ==
    /\ pc = "analyze"
    /\ LET call == Last(calls)
       IN  /\ ~call.popped
           /\ call.next > Len(TableAt(table, call.path).sub_tables)
           /\ calls' = SetLast(calls,
                  [call EXCEPT !.popped = TRUE,
                               !.analysis_table = Last(a_tables)])
           /\ a_tables' = pop_table(a_tables)
    /\ UNCHANGED <<builder_vars, walk_vars, pc, table, examined, result>>

\* for value in analysis_table.map.values_mut() { self.analyze_symbol(value)?; }
AnalyzeSymbol ==
    /\ pc = "analyze"
    /\ LET call == Last(calls)
           map == call.analysis_table.map
       IN  /\ call.popped
           /\ call.symbol <= Len(map)
           /\ examined' = Append(examined,
                  <<call.path, nth_value(map, call.symbol).name>>)
           /\ LET r == analyze_symbol(a_tables, nth_value(map, call.symbol))
              IN  IF r.kind = "Err"
                  THEN /\ result' = r
                       /\ pc' = "done"
                       /\ calls' = <<>>
                  ELSE /\ calls' = SetLast(calls,
                                      [call EXCEPT !.symbol = @ + 1])
                       /\ UNCHANGED <<result, pc>>
    /\ UNCHANGED <<builder_vars, walk_vars, table, a_tables>>

\* Ok(()) of analyze_symbol_table; of the outermost call, Ok(table) of build.
AnalyzeReturn ==
    /\ pc = "analyze"
    /\ LET call == Last(calls)
       IN  /\ call.popped
           /\ call.symbol > Len(call.analysis_table.map)
           /\ calls' = Pop(calls)
           /\ IF Len(calls) = 1
              THEN /\ result' = [kind |-> "Ok", table |-> table]
                   /\ pc' = "done"
              ELSE UNCHANGED <<result, pc>>
    /\ UNCHANGED <<builder_vars, walk_vars, table, a_tables, examined>>

Next ==
    \/ Identifier
    \/ Initializer(Names, SomeTypes, SomeSpecifiers)
    \/ FunctionStatement
    \/ ContractStatement
    \/ CompoundStatement
    \/ IfExpression
    \/ ForEachExpression
    \/ ElseStatement
    \/ ExitScope
    \/ Build
    \/ AnalyzeSubTable
    \/ AnalyzePop
    \/ AnalyzeSymbol
    \/ AnalyzeReturn

Spec == Init /\ [][Next]_vars

\* The building pass alone (prepare_table), its declarations written with
\* every type and every specifier.
NextLocation ==
    \/ Initializer(OneName, Types, Specifiers \cup {NoSpecifier})
    \/ FunctionStatement
    \/ ContractStatement
    \/ CompoundStatement
    \/ IfExpression
    \/ ForEachExpression
    \/ ElseStatement
    \/ ExitScope

SpecLocation == Init /\ [][NextLocation]_vars

----------------------------------------------------------------------------
(* The scope tree, as the properties below read it.                        *)

\* The paths (indices into sub_tables) of the scopes of the tree t.
RECURSIVE Paths(_)
Paths(t) ==
    {<<>>} \cup UNION {{<<i>> \o p : p \in Paths(t.sub_tables[i])} :
                          i \in 1..Len(t.sub_tables)}

\* The paths of the strict ancestors of the scope at path, root first.
AncestorPaths(path) == [i \in 1..Len(path) |-> SubSeq(path, 1, i - 1)]

HasRole(t, name, role) ==
    \E i \in 1..Len(t.symbols) :
        t.symbols[i].name = name /\ t.symbols[i].role = role

HasEntry(t, name) == \E i \in 1..Len(t.symbols) : t.symbols[i].name = name

DeclaredAbove(root, path, name) ==
    \E i \in 1..Len(path) :
        HasRole(TableAt(root, AncestorPaths(path)[i]), name, "Declared")

\* The scope at path refers to name, and no strict ancestor declares it.
UnresolvedAt(root, path, name) ==
    /\ HasRole(TableAt(root, path), name, "Used")
    /\ ~DeclaredAbove(root, path, name)

Unresolved(root) ==
    {name \in Names : \E path \in Paths(root) : UnresolvedAt(root, path, name)}

Message(name) == "Variable " \o name \o " is not declared, but used."

Analyzed == pc \in {"analyze", "done"}

\* The symbols analyze_symbol has accepted: all the examined ones, but the
\* last one when the analysis failed.
Accepted ==
    IF result.kind = "Err" THEN Pop(examined) ELSE examined

----------------------------------------------------------------------------
\* C1: when some scope of the tree holds a Used entry for a name that no
\* strict ancestor declares, make_symbol_tables returns an error, without a
\* tree, whose message is "Variable <n> is not declared, but used." for
\* such a name n.
C1_UndeclaredUseFails ==
    (pc = "done" /\ Unresolved(table) # {}) =>
        /\ result.kind = "Err"
        /\ DOMAIN result = {"kind", "error"}
        /\ \E name \in Unresolved(table) : result.error = Message(name)

\* `uint256 a = 3; b;` at global scope.
C1_Witness ==
    /\ pc = "done"
    /\ table.sub_tables = <<>>
    /\ table.symbols = <<Symbol("a", "Declared", "Uint256", "Memory"),
                         Symbol("b", "Used", "Unknown", "Unknown")>>
    /\ result = [kind |-> "Err",
                 error |-> "Variable b is not declared, but used."]

C3_StackIsStrictAncestors ==
    /\ (pc = "analyze" /\ Last(calls).popped) =>
          LET path == Last(calls).path
          IN  a_tables =
                [i \in 1..Len(path) |->
                    LET t == TableAt(table, AncestorPaths(path)[i])
                    IN  AnalysisTable(t.symbols, t.table_type)]
    /\ Analyzed =>
          \A k \in 1..Len(Accepted) :
              LET path == Accepted[k][1]
                  name == Accepted[k][2]
              IN  HasRole(TableAt(table, path), name, "Used") =>
                      DeclaredAbove(table, path, name)

\* `if .. { uint256 a; } else { a; }`: the reference of the else branch is
\* examined with the global map alone on the stack, and fails.
C3_Witness ==
    /\ pc = "done"
    /\ result = [kind |-> "Err", error |-> Message("a")]
    /\ Len(table.sub_tables) = 2
    /\ table.sub_tables[1].name = "#If_1"
    /\ HasRole(table.sub_tables[1], "a", "Declared")
    /\ table.sub_tables[2].name = "#Else_1"
    /\ HasRole(table.sub_tables[2], "a", "Used")
    /\ Last(examined) = <<(<<2>>), "a">>

\* The scope at path refers to name, some strict ancestor has an entry for
\* it, and every such entry is Used.
MaskedUseAt(root, path, name) ==
    /\ UnresolvedAt(root, path, name)
    /\ \E i \in 1..Len(path) :
          HasEntry(TableAt(root, AncestorPaths(path)[i]), name)

\* C4: a Used entry of an ancestor resolves nothing: a reference whose
\* ancestors hold its name only as Used is never accepted, and validation
\* fails.
C4_UsedAncestorDoesNotResolve ==
    /\ Analyzed =>
          \A k \in 1..Len(Accepted) :
              ~MaskedUseAt(table, Accepted[k][1], Accepted[k][2])
    /\ (pc = "done" /\ \E path \in Paths(table), name \in Names :
                           MaskedUseAt(table, path, name)) =>
          result.kind = "Err"

\* `a; { a; }`: the failure is the one of the nested reference.
C4_Witness ==
    /\ pc = "done"
    /\ result.kind = "Err"
    /\ examined # <<>>
    /\ MaskedUseAt(table, Last(examined)[1], Last(examined)[2])

\* The symbols of the tree in the order of the analysis: the sub-tables in
\* order, each before the symbols of its table, these in map order.
\* Of the table t at path, from its i-th sub-table on.
RECURSIVE PostOrder(_, _, _)
PostOrder(t, path, i) ==
    IF i <= Len(t.sub_tables)
    THEN PostOrder(t.sub_tables[i], Append(path, i), 1)
             \o PostOrder(t, path, i + 1)
    ELSE [k \in 1..Len(t.symbols) |-> <<path, t.symbols[k].name>>]

IsUnresolved(root, entry) == UnresolvedAt(root, entry[1], entry[2])

\* C5: the symbols are examined in post-order, and the analysis stops at
\* the first unresolved one: the error names it, and no symbol after it is
\* examined.
C5_FirstFailureInPostOrder ==
    Analyzed =>
        LET order == PostOrder(table, <<>>, 1)
            n == Len(examined)
        IN  /\ n <= Len(order)
            /\ examined = SubSeq(order, 1, n)
            /\ \A k \in 1..Len(Accepted) : ~IsUnresolved(table, order[k])
            /\ result.kind = "Err" =>
                  /\ pc = "done" /\ calls = <<>>
                  /\ IsUnresolved(table, order[n])
                  /\ result.error = Message(order[n][2])
            /\ (pc = "done" /\ result.kind # "Err") =>
                  /\ examined = order
                  /\ result.kind = "Ok"

\* `a; { b; }`: both names are unresolved; the error names b, of the nested
\* scope, and a is never examined.
C5_Witness ==
    /\ pc = "done"
    /\ UnresolvedAt(table, <<>>, "a")
    /\ table.symbols[1].name = "a"
    /\ Len(table.sub_tables) = 1
    /\ UnresolvedAt(table, <<1>>, "b")
    /\ result = [kind |-> "Err", error |-> Message("b")]
    /\ examined = <<(<<(<<1>>), "b">>)>>

----------------------------------------------------------------------------
\* The location the construct around the statement being visited passes
\* down: Memory for the global statements, Storage for the members of a
\* contract, Unknown for the parameters and the body of a function and for
\* the branches of if and for-each expressions; a compound statement passes
\* on the one it is visited with.
RECURSIVE AmbientLocation(_)
AmbientLocation(fs) ==
    LET kind == Last(fs).kind
    IN  CASE kind = "Program"  -> "Memory"
          [] kind = "Contract" -> "Storage"
          [] kind = "Compound" -> AmbientLocation(Pop(fs))
          [] OTHER             -> "Unknown"

TypeDefault(typ) ==
    IF typ \in {"Uint256", "Int256", "Address", "Bool"} THEN "Memory"
    ELSE "Storage"

ResolvedLocation(specifier, ambient, typ) ==
    IF specifier \in Specifiers THEN specifier
    ELSE IF ambient # "Unknown" THEN ambient
    ELSE TypeDefault(typ)

\* Every Declared symbol of t and of the scopes below it has a location.
RECURSIVE DeclaredLocated(_)
DeclaredLocated(t) ==
    /\ \A i \in 1..Len(t.symbols) :
          t.symbols[i].role = "Declared" =>
              t.symbols[i].data_location \in {"Storage", "Memory"}
    /\ \A i \in 1..Len(t.sub_tables) : DeclaredLocated(t.sub_tables[i])

\* C6: a declared variable gets the location of its specifier; without one,
\* the location passed down by the enclosing construct; and when that is
\* Unknown, the default of its type.  No declared variable has the location
\* Unknown.
C6_LocationPrecedence ==
    /\ stmt.node = "InitializerStatement" =>
          Get(Last(tables).symbols, stmt.name) =
              Symbol(stmt.name, "Declared", stmt.variable_type,
                     ResolvedLocation(stmt.data_location,
                                      AmbientLocation(frames),
                                      stmt.variable_type))
    /\ \A i \in 1..Len(tables) : DeclaredLocated(tables[i])

\* `string a` without a specifier in a compound statement of a function:
\* Unknown is passed down to it, and the type decides for Storage.
C6_Witness ==
    /\ stmt = [node |-> "InitializerStatement", name |-> "a",
               variable_type |-> "String", data_location |-> NoSpecifier]
    /\ Len(frames) = 3
    /\ frames[2].kind = "Function"
    /\ frames[3].kind = "Compound"
    /\ tables[3].symbols = <<Symbol("a", "Declared", "String", "Storage")>>

----------------------------------------------------------------------------
Numbers == 1..(MaxStmts + 1)
IfNames == {scope_name("#If_", k) : k \in Numbers}
ElseNames == {scope_name("#Else_", k) : k \in Numbers}
ForNames == {scope_name("#For_", k) : k \in Numbers}
CompoundNames == {scope_name("#Compound_", k) : k \in Numbers}
AnonymousNames == IfNames \cup ElseNames \cup ForNames \cup CompoundNames

\* The number of the scopes named in names among the first j of subs.
Count(subs, names, j) == Cardinality({i \in 1..j : subs[i].name \in names})

\* The sub-tables of t are numbered as C7 says: the k-th if scope is #If_k
\* and an else scope right after it is #Else_k.
IfsNumbered(subs) ==
    \A j \in 1..Len(subs) :
        subs[j].name \in IfNames =>
            /\ subs[j].name = scope_name("#If_", Count(subs, IfNames, j))
            /\ (j < Len(subs) /\ subs[j + 1].name \in ElseNames) =>
                  subs[j + 1].name =
                      scope_name("#Else_", Count(subs, IfNames, j))

RECURSIVE IfsNumberedIn(_)
IfsNumberedIn(t) ==
    /\ IfsNumbered(t.sub_tables)
    /\ \A i \in 1..Len(t.sub_tables) : IfsNumberedIn(t.sub_tables[i])

\* The sub-tables of the open scope i, the open scope above it included.
OpenSubTables(i) ==
    IF i < Len(tables) THEN Append(tables[i].sub_tables, tables[i + 1])
    ELSE tables[i].sub_tables

\* C7: in every scope the k-th if expression written directly in it opens
\* #If_k, and its else branch #Else_k; the counter of a scope counts the
\* if expressions of that scope alone, from zero.
C7_IfsNumberedPerScope ==
    /\ pc = "build" =>
          \A i \in 1..Len(tables) :
              /\ IfsNumbered(OpenSubTables(i))
              /\ IfsNumberedIn(tables[i])
              /\ if_num[i] = Count(OpenSubTables(i), IfNames,
                                   Len(OpenSubTables(i)))
    /\ pc = "done" => IfsNumberedIn(table)

\* `if .. { if .. { } } if .. { } else { }`: #If_1 holding its own #If_1,
\* then #If_2 and #Else_2.
C7_Witness ==
    /\ pc = "build"
    /\ Len(tables) = 1
    /\ Len(tables[1].sub_tables) = 3
    /\ tables[1].sub_tables[1].name = "#If_1"
    /\ Len(tables[1].sub_tables[1].sub_tables) = 1
    /\ tables[1].sub_tables[1].sub_tables[1].name = "#If_1"
    /\ tables[1].sub_tables[2].name = "#If_2"
    /\ tables[1].sub_tables[3].name = "#Else_2"

UniqueNames(subs) ==
    \A i \in 1..Len(subs), j \in 1..Len(subs) :
        (i < j /\ subs[i].name \in AnonymousNames) =>
            subs[i].name # subs[j].name

RECURSIVE UniqueNamesIn(_)
UniqueNamesIn(t) ==
    /\ UniqueNames(t.sub_tables)
    /\ \A i \in 1..Len(t.sub_tables) : UniqueNamesIn(t.sub_tables[i])

\* C8: no two anonymous scopes created directly in the same scope have the
\* same name.
C8_AnonymousNamesUnique ==
    /\ pc = "build" =>
          \A i \in 1..Len(tables) :
              UniqueNames(OpenSubTables(i)) /\ UniqueNamesIn(tables[i])
    /\ pc = "done" => UniqueNamesIn(table)

\* C9: once a scope has an entry for a name, the role of that entry stays.
C9_RoleNeverChanges ==
    [][\A i \in 1..Len(tables), name \in Names :
          (/\ i <= Len(tables')
           /\ tables'[i].name = tables[i].name
           /\ HasEntry(tables[i], name)
           /\ HasEntry(tables'[i], name)) =>
              Get(tables'[i].symbols, name).role =
                  Get(tables[i].symbols, name).role]_vars

IsPrefix(s, t) == Len(s) <= Len(t) /\ s = SubSeq(t, 1, Len(s))

\* C10: a sealed scope is never changed.  A step of the builder leaves the
\* sub-tables of every open scope as they are, or appends to those of the
\* new top the scope it pops, as it is; it changes the symbols of no scope
\* but the top one; build pops the global scope as it is, the analyzer
\* leaves the tree alone, and Ok returns that tree.
C10_SealedScopesFrozen ==
    [][/\ (pc = "build" /\ pc' = "build") =>
            LET n == Len(tables)
                popped == \/ Len(tables') < n
                          \/ tables'[n].name # tables[n].name
            IN  /\ \A i \in 1..(n - 1) :
                      /\ i <= Len(tables')
                      /\ tables'[i].name = tables[i].name
                      /\ tables'[i].table_type = tables[i].table_type
                      /\ tables'[i].symbols = tables[i].symbols
                      /\ IsPrefix(tables[i].sub_tables, tables'[i].sub_tables)
                /\ popped =>
                      /\ n > 1
                      /\ tables'[n - 1].sub_tables =
                            Append(tables[n - 1].sub_tables, tables[n])
                /\ ~popped =>
                      tables'[n].sub_tables = tables[n].sub_tables
       /\ (pc = "build" /\ pc' # "build") => table' = tables[1]
       /\ pc # "build" => table' = table
       /\ result'.kind = "Ok" => result'.table = table]_vars

\* A tree of two sealed scopes, the first one holding symbols, returned by
\* a successful analysis.
C10_Witness ==
    /\ pc = "done"
    /\ result.kind = "Ok"
    /\ Len(table.sub_tables) = 2
    /\ table.sub_tables[1].symbols # <<>>
    /\ result.table = table

----------------------------------------------------------------------------
\* The step visits a node of the given kinds.
Visits(nodes) == nstmts' = nstmts + 1 /\ stmt'.node \in nodes

\* C11: an identifier reference changes nothing but the symbol map of the
\* current scope, and that only when the name is absent from it: one entry
\* Used/Unknown/Unknown is appended.  When the name is present the map is
\* left as it is.  The enclosing scopes play no part: a name only they
\* declare gets its Used entry all the same.
C11_ReferenceTouchesCurrentScopeOnly ==
    [][Visits({"Identifier"}) =>
          LET n == Len(tables)
              top == tables[n]
              name == stmt'.name
          IN  /\ Len(tables') = n
              /\ \A i \in 1..(n - 1) : tables'[i] = tables[i]
              /\ tables'[n].name = top.name
              /\ tables'[n].table_type = top.table_type
              /\ tables'[n].sub_tables = top.sub_tables
              /\ tables'[n].symbols =
                    IF HasEntry(top, name) THEN top.symbols
                    ELSE Append(top.symbols,
                                Symbol(name, "Used", "Unknown", "Unknown"))
              /\ UNCHANGED <<if_num, for_num, compound_num>>]_vars

\* `uint256 a; { a; }`: the compound statement gets its own Used entry
\* for a.
C11_Witness ==
    /\ pc = "build"
    /\ stmt = [node |-> "Identifier", name |-> "a"]
    /\ Len(tables) = 2
    /\ tables[1].symbols = <<Symbol("a", "Declared", "Uint256", "Memory")>>
    /\ tables[2].symbols = <<Symbol("a", "Used", "Unknown", "Unknown")>>

\* C12: a function or contract declaration registers its name as Declared,
\* Storage, of type Function or Contract in the enclosing scope, and opens
\* one empty scope of that kind and name above it; a declaration visited in
\* the function is registered in the scope of the function.
C12_DeclarationInEnclosingScope ==
    /\ stmt.node \in {"FunctionStatement", "ContractStatement"} =>
          LET n == Len(tables)
              kind == IF stmt.node = "FunctionStatement" THEN "Function"
                      ELSE "Contract"
          IN  /\ n = Len(frames)
              /\ n >= 2
              /\ tables[n] = [name |-> stmt.name, table_type |-> kind,
                              symbols |-> <<>>, sub_tables |-> <<>>]
              /\ HasEntry(tables[n - 1], stmt.name)
              /\ Get(tables[n - 1].symbols, stmt.name) =
                    Symbol(stmt.name, "Declared", kind, "Storage")
    /\ (stmt.node = "InitializerStatement" /\ Last(frames).kind = "Function") =>
          /\ Last(tables).table_type = "Function"
          /\ Last(tables).name \in FunctionNames
          /\ HasRole(Last(tables), stmt.name, "Declared")

\* `contract b { function a(uint256 b) .. }`: b is registered in the scope
\* of a, which holds no entry for a.
C12_Witness ==
    /\ pc = "build"
    /\ stmt.node = "InitializerStatement"
    /\ Len(tables) = 3
    /\ tables[1].symbols = <<Symbol("b", "Declared", "Contract", "Storage")>>
    /\ tables[2].name = "b" /\ tables[2].table_type = "Contract"
    /\ tables[2].symbols = <<Symbol("a", "Declared", "Function", "Storage")>>
    /\ tables[3].name = "a" /\ tables[3].table_type = "Function"
    /\ tables[3].symbols = <<Symbol("b", "Declared", "Uint256", "Memory")>>

\* C13: a for-each expression records its vector as a reference in the
\* current scope and opens the Local scope #For_n, in which its iterator
\* is recorded as a declaration (role Declared); its else branch is the
\* Local scope #Else_n of the same n, without the iterator.
C13_IteratorDeclaredInForScope ==
    /\ stmt.node = "ForEachExpression" =>
          LET n == Len(tables)
          IN  /\ n >= 2
              /\ HasEntry(tables[n - 1], stmt.vector)
              /\ tables[n].name = scope_name("#For_", for_num[n - 1])
              /\ tables[n].table_type = "Local"
              /\ HasRole(tables[n], stmt.iterator, "Declared")
    /\ (stmt.node = "ElseStatement" /\ Last(tables).name \in ElseNames) =>
          /\ Last(tables).table_type = "Local"
          /\ Last(tables).symbols = <<>>

\* C14: during the traversal the four stacks of the builder are as long as
\* the recursion is deep, the global scope is at their bottom; exit_scope
\* is executed with two scopes open at least and makes the popped scope the
\* last sub-table of the new top; build finds the global scope alone.
C14_StackDiscipline ==
    /\ [](pc = "build" =>
             /\ Len(tables) >= 1
             /\ Len(if_num) = Len(tables)
             /\ Len(for_num) = Len(tables)
             /\ Len(compound_num) = Len(tables)
             /\ Len(frames) = Len(tables)
             /\ tables[1].name = "#Global"
             /\ tables[1].table_type = "Global")
    /\ [][/\ (pc' = "build" /\ stmt'.node \in {"End", "ElseStatement"}) =>
               LET n == Len(tables)
               IN  /\ n >= 2
                   /\ Len(tables') =
                         IF stmt'.node = "End" THEN n - 1 ELSE n
                   /\ tables'[n - 1].sub_tables =
                         Append(tables[n - 1].sub_tables, tables[n])
          /\ (pc' = "build" /\ nstmts' = nstmts + 1) =>
               Len(tables') \in {Len(tables), Len(tables) + 1}
          /\ (pc = "build" /\ pc' # "build") =>
               /\ Len(tables) = 1
               /\ tables' = <<>>
               /\ table' = tables[1]]_vars

\* `{ } function a() { if .. {`: three scopes open after a sealed one.
C14_Witness ==
    /\ pc = "build"
    /\ Len(tables) = 3
    /\ Len(if_num) = 3 /\ Len(for_num) = 3 /\ Len(compound_num) = 3
    /\ Len(tables[1].sub_tables) = 1
    /\ tables[1].sub_tables[1].name = "#Compound_1"
    /\ tables[3].name = "#If_1"

====
